---- MODULE Spec2Model ----
(***************************************************************************)
(* Model of src/app/api/error/route.js: the POST create-log handler, the   *)
(* stack-trace symbolication routine mapStackTrace it calls, and the       *)
(* snippet windowing done inside mapStackTrace.                            *)
(*                                                                         *)
(* Two POST requests run concurrently on the event loop. One action is one *)
(* run of a handler between two awaits. The network is a fixed table from  *)
(* URL to behaviour (Net), so every URL serves stable content.             *)
(*                                                                         *)
(* JavaScript values: null is the string "null" for string-valued fields   *)
(* and NullNum for number-valued fields; a text is a sequence of tokens in *)
(* which NL is the line break.                                             *)
(***************************************************************************)
EXTENDS Integers, Sequences, FiniteSets, TLC

VARIABLES
    body,       \* body[r]: the JSON payload of request r (input, never written)
    pc,         \* pc[r]: where the handler of request r is suspended
    frames,     \* frames[r]: const frames = await fromError(errObj)
    cur,        \* cur[r]: position of the for..of loop over frames (1-based)
    out,        \* out[r]: const out = [] of the running mapStackTrace call
    mst,        \* mst[r]: "idle", "running", "returned" or "threw" (mapStackTrace)
    err,        \* err[r]: [name, frame] of the error thrown in request r, NoErr if none
    loc,        \* loc[r]: the city destructured from reverseGeocode's result, and how
                \* the geocode fetch of request r settled ("none" if not issued)
    status,     \* status[r]: HTTP status of the Response returned, 0 while running
    db,         \* the documents of errors.pixpro, in insertion order
    fetchLog,   \* every fetch() issued so far: [req, frame, kind, url]
    snText,     \* windowing only: the inline source text
    snLine,     \* windowing only: pos.line
    snBody,     \* windowing only: the body built from snText and snLine
    snPc,       \* windowing only: "input", "built" or "off"
    delBody,    \* DELETE only: the JSON payload of the request
    delPc,      \* DELETE only: "start", "await_op", "done" or "off"
    delStatus,  \* DELETE only: HTTP status of the Response returned, 0 while running
    delOps,     \* DELETE only: the delete operations sent to the collection
    delErr,     \* DELETE only: name of the error the catch received, "none" if none
    delBefore   \* DELETE only: the collection when the request arrived

vars == <<body, pc, frames, cur, out, mst, err, loc, status, db, fetchLog,
          snText, snLine, snBody, snPc, delBody, delPc, delStatus, delOps, delErr, delBefore>>

reqVars == <<body, pc, frames, cur, out, mst, err, loc, status, db, fetchLog>>
snVars == <<snText, snLine, snBody, snPc>>
delVars == <<delBody, delPc, delStatus, delOps, delErr, delBefore>>

(***************************************************************************)
(* Bounds                                                                  *)
(***************************************************************************)
MaxFrames == 3      \* longest stack trace, in frame lines
MaxLines == 13      \* longest inline source text, in lines
MaxTarget == 19     \* largest pos.line tried by the windowing specification
MaxFairFrames == 1  \* longest stack trace of the specification with fairness
MaxRecords == 3     \* largest collection a DELETE request is tried on

Reqs == {1, 2}

Null == "null"
NullNum == 0 - 1
NL == "\n"
NoFile == ""

Max(a, b) == IF a >= b THEN a ELSE b
Min(a, b) == IF a <= b THEN a ELSE b

(***************************************************************************)
(* Texts and the snippet window (mapStackTrace, lines 75-88)               *)
(***************************************************************************)
HasNL(t) == \E k \in 1..Len(t) : t[k] = NL
FirstNL(t) == CHOOSE k \in 1..Len(t) : t[k] = NL /\ \A j \in 1..(k - 1) : t[j] # NL

\* sourceText.split("\n")
RECURSIVE SplitLines(_)
SplitLines(t) ==
    IF ~HasNL(t) THEN <<t>>
    ELSE <<SubSeq(t, 1, FirstNL(t) - 1)>> \o SplitLines(SubSeq(t, FirstNL(t) + 1, Len(t)))

\* lines.join("\n")
RECURSIVE JoinLines(_)
JoinLines(ls) ==
    IF ls = <<>> THEN <<>>
    ELSE IF Len(ls) = 1 THEN ls[1]
    ELSE ls[1] \o <<NL>> \o JoinLines(Tail(ls))

Digits(n) == IF n < 10 THEN 1 ELSE IF n < 100 THEN 2 ELSE IF n < 1000 THEN 3 ELSE 4

\* ln.toString().padStart(4): the blanks, then the decimal digits as one token
PadStart4(n) == [k \in 1..(4 - Digits(n)) |-> " "] \o <<ToString(n)>>

TargetMark == ">>"
ContextMark == "  "

\* lines.slice(start, end) of a 0-based half-open range
Slice(ls, start, end) == SubSeq(ls, start + 1, Min(end, Len(ls)))

ctx == 5

WindowStartOffByOne(line) == Max(0, line - ctx)

\* const start = Math.max(0, pos.line - ctx - 1)
WindowStart(line) == Max(0, line - ctx - 1)

\* const end = Math.min(lines.length, pos.line + ctx)
WindowEnd(lines, line) == Min(Len(lines), line + ctx)

\* one element of the .map((l, idx) => ...) callback
RenderLine(l, ln, line) ==
    <<IF ln = line THEN TargetMark ELSE ContextMark>> \o PadStart4(ln) \o <<"|">> \o l

\* the body built from an inline source text
BuildBody(sourceText, line) ==
    LET lines == SplitLines(sourceText)
        start == WindowStart(line)
        end == WindowEnd(lines, line)
        part == Slice(lines, start, end)
    IN  JoinLines([idx \in 1..Len(part) |-> RenderLine(part[idx], start + idx, line)])

\* `──────── ${pos.source} ────────\n${body}`
Snippet(source, bodyText) == <<"--------", source, "--------", NL>> \o bodyText

(***************************************************************************)
(* Source maps (source-map-js, as used on lines 47-56)                     *)
(***************************************************************************)
NoText == <<>>      \* null or "": both fail the test `if (!sourceText)`

NullPos == [source |-> Null, line |-> NullNum, column |-> NullNum, name |-> Null]

AppJs == <<"a", NL, "b", NL, "c">>
UtilJs == <<"u">>

AppMap ==
    [valid |-> TRUE,
     mappings |-> <<[gl |-> 1, gc |-> 10, source |-> "util.js", line |-> 1, column |-> 0, name |-> "u"],
                    [gl |-> 1, gc |-> 50, source |-> "app.js", line |-> 2, column |-> 10, name |-> "foo"],
                    [gl |-> 1, gc |-> 90, source |-> "lib.js", line |-> 4, column |-> 2, name |-> Null]>>,
     sourcesContent |-> [s \in {"util.js", "app.js", "lib.js"} |->
                            IF s = "app.js" THEN AppJs
                            ELSE IF s = "util.js" THEN UtilJs ELSE NoText]]

NotAMap == [valid |-> FALSE, mappings |-> <<>>, sourcesContent |-> [s \in {} |-> NoText]]

\* consumer.originalPositionFor({line, column}): the nearest preceding segment
\* of the same generated line, or all-null
originalPositionFor(map, line, column) ==
    LET cand == {k \in 1..Len(map.mappings) :
                    map.mappings[k].gl = line /\ map.mappings[k].gc <= column}
    IN  IF cand = {} THEN NullPos
        ELSE LET k == CHOOSE k \in cand : \A j \in cand : map.mappings[j].gc <= map.mappings[k].gc
                 m == map.mappings[k]
             IN  [source |-> m.source, line |-> m.line, column |-> m.column, name |-> m.name]

\* consumer.sourceContentFor(source, true)
sourceContentFor(map, source) ==
    IF source \in DOMAIN map.sourcesContent THEN map.sourcesContent[source] ELSE NoText

(***************************************************************************)
(* The network: what fetch(url) does for every URL                         *)
(***************************************************************************)
\* const mapURL = `${f.fileName}.map`
mapURL(f) == <<f.fileName, ".map">>

Net(url) ==
    IF url[1] = "reject.js" THEN [kind |-> "reject", status |-> 0, body |-> NotAMap]
    ELSE IF url[1] = "hang.js" THEN [kind |-> "hang", status |-> 0, body |-> NotAMap]
    ELSE IF url[1] = "badmap.js" THEN [kind |-> "response", status |-> 200, body |-> NotAMap]
    ELSE IF url[1] = "app.min.js" THEN [kind |-> "response", status |-> 200, body |-> AppMap]
    ELSE [kind |-> "response", status |-> 404, body |-> NotAMap]

RespOkAlways(resp) == TRUE

\* Response.ok
RespOk(resp) == resp.status >= 200 /\ resp.status <= 299

(***************************************************************************)
(* Stack strings and frames                                                *)
(***************************************************************************)
Frame(fn, file, line, col) ==
    [functionName |-> fn, fileName |-> file, lineNumber |-> line, columnNumber |-> col]

FrameLines ==
    {Frame("native", NoFile, 1, 0),
     Frame("r", "reject.js", 1, 1),
     Frame("h", "hang.js", 1, 1),
     Frame("e", "e404.js", 1, 1),
     Frame("b", "badmap.js", 1, 1),
     Frame("foo", "app.min.js", 1, 50),
     Frame("u", "app.min.js", 1, 12),
     Frame("lib", "app.min.js", 1, 95),
     Frame("x", "app.min.js", 2, 0)}

Traces == UNION {[1..n -> FrameLines] : n \in 0..MaxFrames}

Header == <<"TypeError", ":", "x">>

StackString(ls) == [isString |-> TRUE, header |-> Header, lines |-> ls]
NoStack == [isString |-> FALSE, header |-> <<>>, lines |-> <<>>]

HasColon(t) == \E k \in 1..Len(t) : t[k] = ":"
IndexOfColon(t) == CHOOSE k \in 1..Len(t) : t[k] = ":" /\ \A j \in 1..(k - 1) : t[j] # ":"

\* errorFromString(stackString); applies only to strings (undefined.split throws)
errorFromString(stackString) ==
    LET firstLine == stackString.header
        named == HasColon(firstLine) /\ IndexOfColon(firstLine) > 1
    IN  [name |-> IF named THEN SubSeq(firstLine, 1, IndexOfColon(firstLine) - 1) ELSE <<"Error">>,
         message |-> IF HasColon(firstLine)
                     THEN SubSeq(firstLine, IndexOfColon(firstLine) + 1, Len(firstLine))
                     ELSE firstLine,
         stack |-> stackString]

\* await fromError(errObj): one frame per frame line of err.stack
fromError(errObj) == errObj.stack.lines

RemoveAt(s, k) == SubSeq(s, 1, k - 1) \o SubSeq(s, k + 1, Len(s))

(***************************************************************************)
(* mapStackTrace, one frame at a time (lines 34-101)                       *)
(***************************************************************************)
NoErr == [name |-> "none", frame |-> 0]

HasFileNameAlways(f) == TRUE

\* the negation of `if (!f.fileName) continue`
HasFileName(f) == f.fileName # NoFile

\* `if (pos.source && pos.line)`
Resolved(pos) == pos.source # Null /\ pos.source # "" /\ pos.line # NullNum /\ pos.line # 0

Separator == [separator |-> TRUE]
IsSeparator(e) == "separator" \in DOMAIN e

\* { function: f.functionName, ...pos, snippet }; the field frame is not in
\* the program: it records the index of the frame in `frames` that the entry
\* was built from
Entry(f, pos, snippet, idx) ==
    [function |-> f.functionName, source |-> pos.source, line |-> pos.line,
     column |-> pos.column, name |-> pos.name, snippet |-> snippet, frame |-> idx]

PushFront(o, e) == IF Len(o) > 0 THEN <<e, Separator>> \o o ELSE <<e>>

PushAlwaysSeparated(o, e) == o \o <<Separator, e>>

\* `if (out.length) out.push({ separator: true }); out.push({...})`
Push(o, e) == IF Len(o) > 0 THEN o \o <<Separator, e>> ELSE <<e>>

InitialOutModuleLevel(r) == out[3 - r]

\* `const out = []`
InitialOut(r) == <<>>

\* what `sourceText = await fetchSnippet(absUrl, pos.line)` does: route.js
\* neither defines nor imports fetchSnippet, so evaluating the call throws
fetchSnippet(absUrl, line) == [threw |-> TRUE, name |-> "ReferenceError"]

\* what lines 44-88 compute from the frame alone once its map fetch has
\* settled: "throw" with the error's name, "skip", or "push" with the position
\* and the snippet of the entry to append
Resolve(f) ==
    LET resp == Net(mapURL(f))
        map == resp.body
        pos == originalPositionFor(map, f.lineNumber, f.columnNumber)
        sourceText == sourceContentFor(map, pos.source)
    IN  IF resp.kind = "reject"
        THEN [kind |-> "throw", name |-> "TypeError", pos |-> NullPos, snippet |-> <<>>]
        ELSE IF ~RespOk(resp)
        THEN [kind |-> "skip", name |-> "none", pos |-> NullPos, snippet |-> <<>>]
        ELSE IF ~map.valid
        THEN [kind |-> "throw", name |-> "SyntaxError", pos |-> NullPos, snippet |-> <<>>]
        ELSE IF ~Resolved(pos)
        THEN [kind |-> "skip", name |-> "none", pos |-> pos, snippet |-> <<>>]
        ELSE IF sourceText = NoText
        THEN [kind |-> "throw", name |-> fetchSnippet(<<pos.source, mapURL(f)>>, pos.line).name,
              pos |-> pos, snippet |-> <<>>]
        ELSE [kind |-> "push", name |-> "none", pos |-> pos,
              snippet |-> Snippet(pos.source, BuildBody(sourceText, pos.line))]

\* Resolve, tabulated over the frame lines
Resolutions == [f \in FrameLines |-> Resolve(f)]

\* the rest of one loop iteration once the map response has arrived
\* (lines 44-97): "continue" with the new out, or "throw"
AfterResponse(f, idx, o) ==
    IF Resolutions[f].kind = "throw"
    THEN [kind |-> "throw", out |-> o, name |-> Resolutions[f].name]
    ELSE IF Resolutions[f].kind = "skip"
    THEN [kind |-> "continue", out |-> o, name |-> "none"]
    ELSE [kind |-> "continue", name |-> "none",
          out |-> Push(o, Entry(f, Resolutions[f].pos, Resolutions[f].snippet, idx))]

(***************************************************************************)
(* The POST handler (lines 180-235)                                        *)
(***************************************************************************)
\* ObjectId.createFromHexString(hex), for a hex string it accepts
ObjectId(hex) == <<"ObjectId", hex>>

\* the _id the driver gives the next inserted document: unique in the collection
NextId(coll) == ObjectId(ToString(Len(coll) + 1))

\* `projectId = "unknown"` in the destructuring of the POST payload
DefaultProject == "unknown"

\* the document insertOne stores: _id, projectId, mappedStack and city; req is
\* not in the program: it records the request that inserted the document
Record(r, mapped, city, id, project) ==
    [req |-> r, mappedStack |-> mapped, city |-> city, id |-> id, projectId |-> project]

\* no DELETE request is in the system
DeleteOff ==
    /\ delBody = [id |-> "", ids |-> <<>>, projectId |-> "", deleteAll |-> "absent"]
    /\ delPc = "off"
    /\ delStatus = 0
    /\ delOps = <<>>
    /\ delErr = "none"
    /\ delBefore = <<>>

\* `city = null` by default, and no geocode fetch settled yet
NoLoc == [city |-> Null, geo |-> "none"]

\* errorResponse(err, "Failed to log error."): the catch of POST
Caught(r, name, idx) ==
    /\ err' = [err EXCEPT ![r] = [name |-> name, frame |-> idx]]
    /\ status' = [status EXCEPT ![r] = 500]
    /\ pc' = [pc EXCEPT ![r] = "done"]

\* request.json(), the payload check, and mapStackTrace up to its first await
PostStart(r) ==
    /\ pc[r] = "start"
    /\ IF ~body[r].hasMessage
       THEN /\ status' = [status EXCEPT ![r] = 400]
            /\ pc' = [pc EXCEPT ![r] = "done"]
            /\ UNCHANGED <<mst, err, frames, out>>
       ELSE IF ~body[r].stack.isString
       THEN /\ mst' = [mst EXCEPT ![r] = "threw"]
            /\ Caught(r, "TypeError", 0)
            /\ UNCHANGED <<frames, out>>
       ELSE /\ mst' = [mst EXCEPT ![r] = "running"]
            /\ frames' = [frames EXCEPT ![r] = fromError(errorFromString(body[r].stack))]
            /\ out' = [out EXCEPT ![r] = InitialOut(r)]
            /\ pc' = [pc EXCEPT ![r] = "loop"]
            /\ UNCHANGED <<err, status>>
    /\ UNCHANGED <<body, cur, loc, db, fetchLog, snVars, delVars>>

\* the head of one loop iteration: `if (!f.fileName) continue`, else the map
\* fetch is issued; past the last frame, `return out`
LoopHead(r) ==
    /\ pc[r] = "loop"
    /\ IF cur[r] > Len(frames[r])
       THEN /\ mst' = [mst EXCEPT ![r] = "returned"]
            /\ pc' = [pc EXCEPT ![r] = "geocode"]
            /\ UNCHANGED <<cur, fetchLog>>
       ELSE IF ~HasFileName(frames[r][cur[r]])
       THEN /\ cur' = [cur EXCEPT ![r] = cur[r] + 1]
            /\ UNCHANGED <<mst, pc, fetchLog>>
       ELSE /\ fetchLog' = fetchLog \cup {[req |-> r, frame |-> cur[r], kind |-> "map",
                                           url |-> mapURL(frames[r][cur[r]])]}
            /\ pc' = [pc EXCEPT ![r] = "await_map"]
            /\ UNCHANGED <<mst, cur>>
    /\ UNCHANGED <<body, frames, out, err, loc, status, db, snVars, delVars>>

\* the map fetch settles and the iteration runs to its end
MapResponse(r) ==
    /\ pc[r] = "await_map"
    /\ Net(mapURL(frames[r][cur[r]])).kind # "hang"
    /\ LET res == AfterResponse(frames[r][cur[r]], cur[r], out[r])
       IN  IF res.kind = "throw"
           THEN /\ mst' = [mst EXCEPT ![r] = "threw"]
                /\ Caught(r, res.name, cur[r])
                /\ UNCHANGED <<out, cur>>
           ELSE /\ out' = [out EXCEPT ![r] = res.out]
                /\ cur' = [cur EXCEPT ![r] = cur[r] + 1]
                /\ pc' = [pc EXCEPT ![r] = "loop"]
                /\ UNCHANGED <<mst, err, status>>
    /\ UNCHANGED <<body, frames, loc, db, fetchLog, snVars, delVars>>

\* reverseGeocode(geo.lat, geo.lon) up to its fetch (lines 104-118); hasGeo
\* says whether the payload carries both geo.lat and geo.lon
Geocode(r) ==
    /\ pc[r] = "geocode"
    /\ \E hasGeo \in BOOLEAN :
          IF ~hasGeo
          THEN /\ pc' = [pc EXCEPT ![r] = "insert"]
               /\ UNCHANGED fetchLog
          ELSE /\ fetchLog' = fetchLog \cup {[req |-> r, frame |-> 0, kind |-> "geocode",
                                              url |-> <<"nominatim", "reverse">>]}
               /\ pc' = [pc EXCEPT ![r] = "await_geo"]
    /\ UNCHANGED <<body, frames, cur, out, mst, err, loc, status, db, snVars, delVars>>

\* the geocode fetch settles (lines 120-136); a rejected fetch is caught inside
\* reverseGeocode, whose result then has no city
GeoResponse(r) ==
    /\ pc[r] = "await_geo"
    /\ \E outcome \in {"ok", "notok", "reject"} :
          loc' = [loc EXCEPT ![r] = [city |-> IF outcome = "ok" THEN "Pune" ELSE Null,
                                     geo |-> outcome]]
    /\ pc' = [pc EXCEPT ![r] = "insert"]
    /\ UNCHANGED <<body, frames, cur, out, mst, err, status, db, fetchLog, snVars, delVars>>

InsertRetried(r) ==
    /\ pc[r] = "insert"
    /\ \E ok \in BOOLEAN :
          IF ok
          THEN /\ db' = db \o <<Record(r, out[r], loc[r].city, NextId(db), DefaultProject),
                                Record(r, out[r], loc[r].city, NextId(db), DefaultProject)>>
               /\ status' = [status EXCEPT ![r] = 200]
               /\ pc' = [pc EXCEPT ![r] = "done"]
               /\ UNCHANGED err
          ELSE /\ Caught(r, "MongoError", 0)
               /\ UNCHANGED db
    /\ UNCHANGED <<body, frames, cur, out, mst, loc, fetchLog, snVars, delVars>>

\* await clientPromise; insertOne({...}); the 200 response, or the catch
Insert(r) ==
    /\ pc[r] = "insert"
    /\ \E ok \in BOOLEAN :
          IF ok
          THEN /\ db' = Append(db, Record(r, out[r], loc[r].city, NextId(db), DefaultProject))
               /\ status' = [status EXCEPT ![r] = 200]
               /\ pc' = [pc EXCEPT ![r] = "done"]
               /\ UNCHANGED err
          ELSE /\ Caught(r, "MongoError", 0)
               /\ UNCHANGED db
    /\ UNCHANGED <<body, frames, cur, out, mst, loc, fetchLog, snVars, delVars>>

(***************************************************************************)
(* Specification of the two requests                                       *)
(***************************************************************************)
Bodies(ls) == {[hasMessage |-> TRUE, stack |-> StackString(ls)]}

\* the second request carries the same stack as the first, or that stack with
\* one frame line removed
Variants(ls) == {ls} \cup {RemoveAt(ls, k) : k \in 1..Len(ls)}

BadBodies ==
    {[hasMessage |-> FALSE, stack |-> NoStack],
     [hasMessage |-> TRUE, stack |-> NoStack]}

Next ==
    \E r \in Reqs :
        \/ PostStart(r)
        \/ LoopHead(r)
        \/ MapResponse(r)
        \/ Geocode(r)
        \/ GeoResponse(r)
        \/ Insert(r)

\* the state after construction for a given set of stack traces
InitOver(traces) ==
    /\ \/ \E ls \in traces : \E v \in Variants(ls) :
             \E b1 \in Bodies(ls) : \E b2 \in Bodies(v) : body = <<b1, b2>>
       \/ \E ls \in traces : \E b1 \in BadBodies : \E b2 \in Bodies(ls) : body = <<b1, b2>>
    /\ pc = [r \in Reqs |-> "start"]
    /\ frames = [r \in Reqs |-> <<>>]
    /\ cur = [r \in Reqs |-> 1]
    /\ out = [r \in Reqs |-> <<>>]
    /\ mst = [r \in Reqs |-> "idle"]
    /\ err = [r \in Reqs |-> NoErr]
    /\ loc = [r \in Reqs |-> NoLoc]
    /\ status = [r \in Reqs |-> 0]
    /\ db = <<>>
    /\ fetchLog = {}
    /\ snText = <<>>
    /\ snLine = 0
    /\ snBody = <<>>
    /\ snPc = "off"
    /\ DeleteOff

Init == InitOver(Traces)

Spec == Init /\ [][Next]_vars

\* the same requests over stack traces of at most MaxFairFrames frame lines,
\* under the scheduling of the event loop: a continuation that is ready runs
InitFair == InitOver({ls \in Traces : Len(ls) <= MaxFairFrames})

FairSpec ==
    InitFair /\ [][Next]_vars
        /\ \A r \in Reqs : WF_vars(PostStart(r) \/ LoopHead(r) \/ MapResponse(r)
                                     \/ Geocode(r) \/ GeoResponse(r) \/ Insert(r))

TypeOK ==
    /\ pc \in [Reqs -> {"start", "loop", "await_map", "geocode", "await_geo", "insert", "done"}]
    /\ mst \in [Reqs -> {"idle", "running", "returned", "threw"}]
    /\ status \in [Reqs -> {0, 200, 400, 500}]
    /\ \A r \in Reqs : cur[r] \in 1..(Len(frames[r]) + 1)

(***************************************************************************)
(* Specification of the snippet window alone: every inline text of up to   *)
(* MaxLines numbered lines, with or without a final line break, and every  *)
(* target line up to MaxTarget. The two requests are not run.              *)
(***************************************************************************)
NumberedText(n, trailing) ==
    JoinLines([i \in 1..n |-> <<ToString(i)>>]) \o (IF trailing THEN <<NL>> ELSE <<>>)

InitSnippet ==
    /\ body = <<[hasMessage |-> FALSE, stack |-> NoStack], [hasMessage |-> FALSE, stack |-> NoStack]>>
    /\ pc = [r \in Reqs |-> "start"]
    /\ frames = [r \in Reqs |-> <<>>]
    /\ cur = [r \in Reqs |-> 1]
    /\ out = [r \in Reqs |-> <<>>]
    /\ mst = [r \in Reqs |-> "idle"]
    /\ err = [r \in Reqs |-> NoErr]
    /\ loc = [r \in Reqs |-> NoLoc]
    /\ status = [r \in Reqs |-> 0]
    /\ db = <<>>
    /\ fetchLog = {}
    /\ \E n \in 1..MaxLines : \E trailing \in BOOLEAN : snText = NumberedText(n, trailing)
    /\ snLine \in 1..MaxTarget
    /\ snBody = <<>>
    /\ snPc = "input"
    /\ DeleteOff

\* lines 75-88 applied to (snText, snLine)
BuildSnippet ==
    /\ snPc = "input"
    /\ snBody' = BuildBody(snText, snLine)
    /\ snPc' = "built"
    /\ UNCHANGED <<reqVars, snText, snLine, delVars>>

NextSnippet == BuildSnippet

SnippetSpec == InitSnippet /\ [][NextSnippet]_vars

(***************************************************************************)
(* Reading a body back: its rendered lines, their numbers and marks        *)
(***************************************************************************)
BodyLines(b) == IF b = <<>> THEN <<>> ELSE SplitLines(b)
BarAt(rl) == CHOOSE j \in 1..Len(rl) : rl[j] = "|" /\ \A i \in 1..(j - 1) : rl[i] # "|"
LineNo(rl) == CHOOSE k \in 1..9999 : ToString(k) = rl[BarAt(rl) - 1]
LineText(rl) == SubSeq(rl, BarAt(rl) + 1, Len(rl))
IsMarked(rl) == rl[1] = TargetMark
MarkedLines(b) == {k \in 1..Len(BodyLines(b)) : IsMarked(BodyLines(b)[k])}

\* the body holds exactly the lines lo..hi of the text, in ascending order
CoversWindow(b, text, lo, hi) ==
    LET bl == BodyLines(b)
        lines == SplitLines(text)
    IN  /\ Len(bl) = Max(0, hi - lo + 1)
        /\ \A k \in 1..Len(bl) :
              /\ LineNo(bl[k]) = lo + k - 1
              /\ LineText(bl[k]) = lines[lo + k - 1]
              /\ Len(bl[k]) = 5 - Digits(lo + k - 1) + 2 + Len(lines[lo + k - 1])

SnN == Len(SplitLines(snText))

\* C5 as stated: for every target line L >= 1 and every inline text of N
\* lines the body holds exactly the lines max(1, L-5)..min(N, L+5), ascending,
\* and exactly one of them, the one numbered L, carries the target marker.
C5_AsStated ==
    snPc = "built" =>
        /\ CoversWindow(snBody, snText, Max(1, snLine - ctx), Min(SnN, snLine + ctx))
        /\ Cardinality(MarkedLines(snBody)) = 1
        /\ \A k \in MarkedLines(snBody) : LineNo(BodyLines(snBody)[k]) = snLine

\* C5 amended: the body holds exactly the lines max(1, L-5)..min(N, L+5),
\* ascending (none when L-5 > N); the line numbered L carries the target
\* marker and no other line does, so exactly one line is marked when L <= N
\* and none is when L > N.
C5_Window ==
    snPc = "built" =>
        /\ CoversWindow(snBody, snText, Max(1, snLine - ctx), Min(SnN, snLine + ctx))
        /\ Cardinality(MarkedLines(snBody)) = (IF snLine <= SnN THEN 1 ELSE 0)
        /\ \A k \in MarkedLines(snBody) : LineNo(BodyLines(snBody)[k]) = snLine

\* a body clipped at neither end: eleven lines around a marked target
C5_Witness ==
    /\ snPc = "built"
    /\ snLine > ctx + 1
    /\ snLine + ctx < SnN
    /\ Len(BodyLines(snBody)) = 2 * ctx + 1
    /\ Cardinality(MarkedLines(snBody)) = 1

(***************************************************************************)
(* Properties of mapStackTrace and POST                                    *)
(***************************************************************************)
Finished(r) == mst[r] \in {"returned", "threw"}
ThrewAt(r, k) == mst[r] = "threw" /\ err[r].frame = k
\* the error mapStackTrace raised to POST, NoErr if it raised none
Raised(r) == IF mst[r] = "threw" THEN err[r] ELSE NoErr

\* the frame entries of an output, separators left out
RECURSIVE FrameEntries(_)
FrameEntries(o) ==
    IF o = <<>> THEN <<>>
    ELSE IF IsSeparator(Head(o)) THEN FrameEntries(Tail(o))
    ELSE <<Head(o)>> \o FrameEntries(Tail(o))

Separators(o) == {k \in 1..Len(o) : IsSeparator(o[k])}
ReportedFrames(o) == {o[k].frame : k \in (1..Len(o)) \ Separators(o)}

\* an output as the program holds it, without the recorded frame index
RECURSIVE Visible(_)
Visible(o) ==
    IF o = <<>> THEN <<>>
    ELSE IF IsSeparator(Head(o)) THEN <<Head(o)>> \o Visible(Tail(o))
    ELSE <<[function |-> Head(o).function, source |-> Head(o).source, line |-> Head(o).line,
            column |-> Head(o).column, name |-> Head(o).name, snippet |-> Head(o).snippet]>>
         \o Visible(Tail(o))

\* every output of mapStackTrace there is: the running ones and the persisted ones
Outputs == {<<r, out[r]>> : r \in Reqs} \cup {<<db[k].req, db[k].mappedStack>> : k \in 1..Len(db)}

FetchRejects(f) == f.fileName # NoFile /\ Net(mapURL(f)).kind = "reject"

\* C1: a frame whose source-map fetch rejects is skipped; mapStackTrace raises
\* no error on it and goes on to the remaining frames.
C1_RejectedFetchSkipped ==
    \A r \in Reqs : \A k \in 1..Len(frames[r]) :
        FetchRejects(frames[r][k]) => ~ThrewAt(r, k)

NoSourceText(f) ==
    /\ f.fileName # NoFile
    /\ Net(mapURL(f)).kind = "response"
    /\ Net(mapURL(f)).status = 200
    /\ Net(mapURL(f)).body.valid
    /\ LET pos == originalPositionFor(Net(mapURL(f)).body, f.lineNumber, f.columnNumber)
       IN  Resolved(pos) /\ sourceContentFor(Net(mapURL(f)).body, pos.source) = NoText

\* C2: a frame that resolves through the map but has no source text, inline or
\* remote, is absent from the output, and mapStackTrace raises no error on it.
C2_NoSourceTextDropped ==
    \A r \in Reqs : \A k \in 1..Len(frames[r]) :
        NoSourceText(frames[r][k]) => k \notin ReportedFrames(out[r]) /\ ~ThrewAt(r, k)

\* C3: the frame entries of every output are built from frames of the parsed
\* input, in the input's order, each frame at most once.
C3_OrderPreserved ==
    \A o \in Outputs :
        LET es == FrameEntries(o[2])
            fs == frames[o[1]]
        IN  /\ \A k \in 1..Len(es) :
                  /\ es[k].frame \in 1..Len(fs)
                  /\ es[k].function = fs[es[k].frame].functionName
            /\ \A j, k \in 1..Len(es) : j < k => es[j].frame < es[k].frame

\* a returned report of two frames with a dropped frame between them
C3_Witness ==
    \E r \in Reqs :
        /\ mst[r] = "returned"
        /\ ReportedFrames(out[r]) = {1, 3}
        /\ Len(frames[r]) = 3

Non2xx(f) ==
    /\ f.fileName # NoFile
    /\ Net(mapURL(f)).kind = "response"
    /\ (Net(mapURL(f)).status < 200 \/ Net(mapURL(f)).status > 299)

\* request 2 carries the stack of request 1 without its k-th frame line
SecondLacks(k) ==
    /\ body[1].stack.isString
    /\ k \in 1..Len(body[1].stack.lines)
    /\ body[2].stack.lines = RemoveAt(body[1].stack.lines, k)

\* C4: a frame whose map fetch answers non-2xx is never reported, the result
\* for the trace is the result for the trace without that frame, and a trace
\* of one such frame returns an empty output.
C4_Non2xxDropped ==
    /\ \A r \in Reqs : \A k \in ReportedFrames(out[r]) : ~Non2xx(frames[r][k])
    /\ \A k \in 1..MaxFrames :
          (SecondLacks(k) /\ Non2xx(body[1].stack.lines[k]) /\ Finished(1) /\ Finished(2))
              => /\ Visible(out[1]) = Visible(out[2])
                 /\ mst[1] = mst[2]
                 /\ Raised(1).name = Raised(2).name
    /\ \A r \in Reqs :
          (Finished(r) /\ Len(frames[r]) = 1 /\ Non2xx(frames[r][1]))
              => mst[r] = "returned" /\ out[r] = <<>>

\* both calls returned, the first over a trace with a 404 frame between two
\* reported frames, the second over the trace without it
C4_Witness ==
    /\ SecondLacks(2)
    /\ Non2xx(body[1].stack.lines[2])
    /\ mst[1] = "returned" /\ mst[2] = "returned"
    /\ ReportedFrames(out[1]) = {1, 3}
    /\ ReportedFrames(out[2]) = {1, 2}

\* C6: when error.stack is not a string, POST still ingests the error: the
\* record is persisted with an empty mappedStack and the answer is a success.
C6_CatastrophicSymbolicationCaught ==
    \A r \in Reqs :
        (body[r].hasMessage /\ ~body[r].stack.isString /\ pc[r] = "done")
            => /\ status[r] = 200
               /\ \E k \in 1..Len(db) : db[k].req = r /\ db[k].mappedStack = <<>>

\* separators stand exactly between two frame entries
WellSeparated(o) ==
    /\ \A k \in 1..Len(o) : IsSeparator(o[k]) <=> (k % 2 = 0)
    /\ Len(o) % 2 = 1 \/ Len(o) = 0
    /\ Cardinality(Separators(o)) = Max(0, Len(FrameEntries(o)) - 1)

\* C7: in every output, at every time, separators appear only between two
\* frame entries: none first, none last, no two adjacent, no two entries
\* adjacent, and k-1 of them for k >= 1 entries.
C7_SeparatorsBetweenFrames == \A o \in Outputs : WellSeparated(o[2])

\* a persisted report of three frames and two separators
C7_Witness ==
    \E k \in 1..Len(db) :
        /\ Len(FrameEntries(db[k].mappedStack)) = 3
        /\ Cardinality(Separators(db[k].mappedStack)) = 2

AwaitsSilentHost(r) ==
    pc[r] = "await_map" /\ Net(mapURL(frames[r][cur[r]])).kind = "hang"

\* C8: a map fetch to a host that never answers is cut off by a timeout, and
\* the request that issued it completes.
C8_SilentHostTimesOut == \A r \in Reqs : AwaitsSilentHost(r) ~> (pc[r] = "done")

\* C9: a frame without a file reference is never reported, no fetch is issued
\* for it, and no error is raised on it.
C9_NoFileDropped ==
    \A r \in Reqs : \A k \in 1..Len(frames[r]) :
        frames[r][k].fileName = NoFile
            => /\ k \notin ReportedFrames(out[r])
               /\ \A e \in fetchLog : ~(e.req = r /\ e.frame = k)
               /\ ~ThrewAt(r, k)

\* a call that returned a report after passing a frame without a file reference
C9_Witness ==
    \E r \in Reqs :
        /\ mst[r] = "returned"
        /\ \E k \in 1..Len(frames[r]) : frames[r][k].fileName = NoFile
        /\ out[r] # <<>>
        /\ \E e \in fetchLog : e.req = r /\ e.kind = "map"

\* C10: two calls on the same stack string, one after the other or
\* interleaved, end the same way with identical outputs.
C10_SameInputSameOutput ==
    (body[1].stack = body[2].stack /\ Finished(1) /\ Finished(2))
        => out[1] = out[2] /\ mst[1] = mst[2] /\ Raised(1) = Raised(2)

\* two calls on one stack string that both returned a report of two frames
C10_Witness ==
    /\ body[1].stack = body[2].stack
    /\ mst[1] = "returned" /\ mst[2] = "returned"
    /\ Len(FrameEntries(out[1])) = 2
    /\ Len(FrameEntries(out[2])) = 2

(***************************************************************************)
(* Properties of one POST create-log request                               *)
(***************************************************************************)
RecordsOf(r) == {k \in 1..Len(db) : db[k].req = r}
FetchesOf(r) == {e \in fetchLog : e.req = r}
GeocodeFailed(r) == loc[r].geo \in {"notok", "reject"}

\* what holds of every request whatever the geocoder does: at most one record,
\* success exactly with the one record and after mapStackTrace returned, 400
\* without any effect for a payload without error.message, 500 without a
\* record when symbolication or insertion fails
PostOutcome(r) ==
    /\ Cardinality(RecordsOf(r)) <= 1
    /\ status[r] = 200 <=> Cardinality(RecordsOf(r)) = 1
    /\ status[r] = 200
          => /\ mst[r] = "returned" /\ pc[r] = "done"
             /\ (\E e \in FetchesOf(r) : e.kind = "geocode") => loc[r].geo # "none"
    /\ (~body[r].hasMessage /\ pc[r] = "done")
          => status[r] = 400 /\ FetchesOf(r) = {} /\ RecordsOf(r) = {}
    /\ (mst[r] = "threw" \/ err[r].name = "MongoError")
          => status[r] = 500 /\ RecordsOf(r) = {}
    /\ status[r] = 500 => (mst[r] = "threw" \/ err[r].name = "MongoError")

\* C12 as stated: at most one record per request, success if and only if one
\* record was inserted after symbolication and geocoding completed, 400 with
\* no fetch and no insert without error.message, and 500 with no record on
\* any failure of symbolication, geocoding or insertion.
C12_AsStated ==
    \A r \in Reqs :
        /\ PostOutcome(r)
        /\ (GeocodeFailed(r) /\ pc[r] = "done") => status[r] = 500 /\ RecordsOf(r) = {}

\* C12 amended: as stated for symbolication and insertion, while a failed
\* geocode (non-2xx answer or rejected fetch) fails nothing: the request goes
\* on to the insert, and when the insert succeeds the record has a null city
\* and the answer is 200.
C12_PostOutcome ==
    \A r \in Reqs :
        /\ PostOutcome(r)
        /\ (GeocodeFailed(r) /\ pc[r] = "done" /\ err[r].name # "MongoError")
              => /\ status[r] = 200
                 /\ \A k \in RecordsOf(r) : db[k].city = Null

\* one request answered 200 after a failed geocode, the other answered 400
C12_Witness ==
    /\ status[1] = 400
    /\ status[2] = 200 /\ GeocodeFailed(2)
    /\ Cardinality(RecordsOf(2)) = 1
    /\ FetchesOf(2) # {}

(***************************************************************************)
(* The DELETE handler (lines 243-330)                                      *)
(***************************************************************************)
\* JavaScript truthiness of a string-valued field; "" also stands for a
\* field that is absent
Truthy(v) == v # ""

\* the value `true` itself, not a string or another truthy value
BooleanTrue == "boolean true"

\* the strings ObjectId.createFromHexString accepts; any other throws
ValidHex(h) == h \in {ToString(k) : k \in 1..(MaxRecords + 1)} \cup {"f"}

\* the documents a filter matches, as positions in the collection
Matches(coll, filter) ==
    {k \in 1..Len(coll) :
        \/ filter.by = "id" /\ coll[k].id = filter.id
        \/ filter.by = "ids" /\ coll[k].id \in filter.ids
        \/ filter.by = "projectId" /\ coll[k].projectId = filter.projectId
        \/ filter.by = "all"}

RECURSIVE Without(_, _)
Without(coll, gone) ==
    IF coll = <<>> THEN <<>>
    ELSE IF Len(coll) \in gone
    THEN Without(SubSeq(coll, 1, Len(coll) - 1), gone)
    ELSE Append(Without(SubSeq(coll, 1, Len(coll) - 1), gone), coll[Len(coll)])

\* collection.deleteOne(filter): the first matching document goes
deleteOne(coll, filter) ==
    IF Matches(coll, filter) = {} THEN coll
    ELSE Without(coll, {CHOOSE k \in Matches(coll, filter) :
                            \A j \in Matches(coll, filter) : k <= j})

\* collection.deleteMany(filter): every matching document goes
deleteMany(coll, filter) == Without(coll, Matches(coll, filter))

NoFilter == [by |-> "none", id |-> ObjectId(""), ids |-> {}, projectId |-> ""]

DispatchProjectFirst(b) ==
    IF Truthy(b.id)
    THEN IF ValidHex(b.id)
         THEN [kind |-> "deleteOne",
               filter |-> [by |-> "id", id |-> ObjectId(b.id), ids |-> {}, projectId |-> ""]]
         ELSE [kind |-> "throw", filter |-> NoFilter]
    ELSE IF Truthy(b.projectId)
    THEN [kind |-> "deleteMany",
          filter |-> [by |-> "projectId", id |-> ObjectId(""), ids |-> {}, projectId |-> b.projectId]]
    ELSE IF Len(b.ids) > 0
    THEN IF \A k \in 1..Len(b.ids) : ValidHex(b.ids[k])
         THEN [kind |-> "deleteMany",
               filter |-> [by |-> "ids", id |-> ObjectId(""),
                           ids |-> {ObjectId(b.ids[k]) : k \in 1..Len(b.ids)}, projectId |-> ""]]
         ELSE [kind |-> "throw", filter |-> NoFilter]
    ELSE IF b.deleteAll = BooleanTrue
    THEN [kind |-> "deleteMany", filter |-> [NoFilter EXCEPT !.by = "all"]]
    ELSE [kind |-> "invalid", filter |-> NoFilter]

\* the if-chain of lines 251-326 up to the first await: the one operation the
\* payload selects, "throw" when a hex string is rejected, "invalid" when no
\* branch is taken
Dispatch(b) ==
    IF Truthy(b.id)
    THEN IF ValidHex(b.id)
         THEN [kind |-> "deleteOne",
               filter |-> [by |-> "id", id |-> ObjectId(b.id), ids |-> {}, projectId |-> ""]]
         ELSE [kind |-> "throw", filter |-> NoFilter]
    ELSE IF Len(b.ids) > 0
    THEN IF \A k \in 1..Len(b.ids) : ValidHex(b.ids[k])
         THEN [kind |-> "deleteMany",
               filter |-> [by |-> "ids", id |-> ObjectId(""),
                           ids |-> {ObjectId(b.ids[k]) : k \in 1..Len(b.ids)}, projectId |-> ""]]
         ELSE [kind |-> "throw", filter |-> NoFilter]
    ELSE IF Truthy(b.projectId)
    THEN [kind |-> "deleteMany",
          filter |-> [by |-> "projectId", id |-> ObjectId(""), ids |-> {}, projectId |-> b.projectId]]
    ELSE IF b.deleteAll = BooleanTrue
    THEN [kind |-> "deleteMany", filter |-> [NoFilter EXCEPT !.by = "all"]]
    ELSE [kind |-> "invalid", filter |-> NoFilter]

\* request.json(), await clientPromise (which may reject), and the if-chain up
\* to the delete operation it sends, the 400 response, or the catch
DeleteStart ==
    /\ delPc = "start"
    /\ \E connected \in BOOLEAN :
          IF ~connected \/ Dispatch(delBody).kind = "throw"
          THEN /\ delErr' = IF ~connected THEN "MongoError" ELSE "BSONError"
               /\ delStatus' = 500
               /\ delPc' = "done"
               /\ UNCHANGED delOps
          ELSE IF Dispatch(delBody).kind = "invalid"
          THEN /\ delStatus' = 400
               /\ delPc' = "done"
               /\ UNCHANGED <<delOps, delErr>>
          ELSE /\ delOps' = Append(delOps, Dispatch(delBody))
               /\ delPc' = "await_op"
               /\ UNCHANGED <<delStatus, delErr>>
    /\ UNCHANGED <<reqVars, snVars, delBody, delBefore>>

\* the operation settles: the collection changes and the handler answers 200,
\* or 404 when deleteOne deleted nothing; a failed operation changes nothing
\* and is answered by the catch
DeleteSettle ==
    /\ delPc = "await_op"
    /\ LET op == delOps[Len(delOps)]
           after == IF op.kind = "deleteOne" THEN deleteOne(db, op.filter)
                    ELSE deleteMany(db, op.filter)
           deletedCount == Len(db) - Len(after)
       IN  \E ok \in BOOLEAN :
              IF ok
              THEN /\ db' = after
                   /\ delStatus' = IF op.kind = "deleteOne" /\ deletedCount = 0 THEN 404 ELSE 200
                   /\ UNCHANGED delErr
              ELSE /\ delStatus' = 500
                   /\ delErr' = "MongoError"
                   /\ UNCHANGED db
    /\ delPc' = "done"
    /\ UNCHANGED <<body, pc, frames, cur, out, mst, err, loc, status, fetchLog,
                   snVars, delBody, delOps, delBefore>>

(***************************************************************************)
(* Specification of one DELETE request on a collection of up to MaxRecords *)
(* documents. No POST request runs.                                        *)
(***************************************************************************)
Projects == {"p1", DefaultProject}

Collections ==
    UNION {{[k \in 1..n |-> Record(0, <<>>, Null, ObjectId(ToString(k)), pr[k])] :
               pr \in [1..n -> Projects]} : n \in 0..MaxRecords}

DeleteBodies ==
    [id : {"", "1", "f", "zz"},
     ids : {<<>>, <<"1">>, <<"2", "1">>, <<"f">>, <<"1", "zz">>},
     projectId : {"", "p1", "p2"},
     deleteAll : {"absent", BooleanTrue, "string true"}]

InitDelete ==
    /\ body = <<[hasMessage |-> FALSE, stack |-> NoStack], [hasMessage |-> FALSE, stack |-> NoStack]>>
    /\ pc = [r \in Reqs |-> "done"]
    /\ frames = [r \in Reqs |-> <<>>]
    /\ cur = [r \in Reqs |-> 1]
    /\ out = [r \in Reqs |-> <<>>]
    /\ mst = [r \in Reqs |-> "idle"]
    /\ err = [r \in Reqs |-> NoErr]
    /\ loc = [r \in Reqs |-> NoLoc]
    /\ status = [r \in Reqs |-> 0]
    /\ fetchLog = {}
    /\ snText = <<>>
    /\ snLine = 0
    /\ snBody = <<>>
    /\ snPc = "off"
    /\ db \in Collections
    /\ delBody \in DeleteBodies
    /\ delPc = "start"
    /\ delStatus = 0
    /\ delOps = <<>>
    /\ delErr = "none"
    /\ delBefore = db

NextDelete == DeleteStart \/ DeleteSettle

DeleteSpec == InitDelete /\ [][NextDelete]_vars

(***************************************************************************)
(* Properties of one DELETE request                                        *)
(***************************************************************************)
Range(q) == {q[k] : k \in 1..Len(q)}
Removed == Range(delBefore) \ Range(db)

\* the documents the stated precedence designates for a payload
Designated(b) ==
    IF b.id # ""
    THEN {d \in Range(delBefore) : d.id = ObjectId(b.id)}
    ELSE IF b.ids # <<>>
    THEN {d \in Range(delBefore) : \E k \in 1..Len(b.ids) : d.id = ObjectId(b.ids[k])}
    ELSE IF b.projectId # ""
    THEN {d \in Range(delBefore) : d.projectId = b.projectId}
    ELSE IF b.deleteAll = BooleanTrue
    THEN Range(delBefore)
    ELSE {}

MatchesNoBranch(b) == b.id = "" /\ b.ids = <<>> /\ b.projectId = "" /\ b.deleteAll # BooleanTrue

\* the hex strings of the branch the precedence selects
SelectedHex(b) ==
    IF b.id # "" THEN {b.id}
    ELSE IF b.ids # <<>> THEN Range(b.ids)
    ELSE {}

Malformed(h) == h \notin {ToString(k) : k \in 1..(MaxRecords + 1)} /\ h # "f"

\* what the stated precedence says of the operation and of the documents
Precedence ==
    /\ Len(delOps) <= 1
    /\ Removed \subseteq Designated(delBody)
    /\ Range(db) \subseteq Range(delBefore)
    /\ Cardinality(Removed) <= (IF delBody.id # "" THEN 1 ELSE MaxRecords + 1)
    /\ delStatus = 200 => Removed = Designated(delBody) /\ Len(delOps) = 1
    /\ delStatus \in {400, 404} => Removed = {}
    /\ delStatus = 400 => MatchesNoBranch(delBody) /\ delOps = <<>>
    /\ delStatus = 404 => delBody.id # ""

\* C11 as stated, for requests during which the database does not fail: at
\* most one delete operation, chosen by the precedence id, ids, projectId,
\* deleteAll; a payload matching no branch deletes nothing and is answered
\* 400; a delete by id that removes nothing is answered 404.
C11_AsStated ==
    (delPc = "done" /\ delErr # "MongoError")
        => /\ Precedence
           /\ MatchesNoBranch(delBody) => delStatus = 400
           /\ (delBody.id # "" /\ Removed = {}) => delStatus = 404

\* C11 amended: at most one delete operation, chosen by the precedence id,
\* ids, projectId, deleteAll; only designated documents are ever removed and
\* a 200 answer means exactly they are gone. When the selected id, or one of
\* the selected ids, is not a hex string ObjectId accepts, or the database
\* fails, no document is removed and the answer is 500. Otherwise a payload
\* matching no branch is answered 400 and a delete by id that removes nothing
\* is answered 404.
C11_DeletePrecedence ==
    /\ Precedence
    /\ delStatus = 500 <=> delErr # "none"
    /\ delStatus = 500 => Removed = {}
    /\ delErr = "BSONError" => (\E h \in SelectedHex(delBody) : Malformed(h)) /\ delOps = <<>>
    /\ (delPc = "done" /\ delErr = "none")
          => /\ \A h \in SelectedHex(delBody) : ~Malformed(h)
             /\ MatchesNoBranch(delBody) <=> delStatus = 400
             /\ (delBody.id # "" /\ Removed = {}) <=> delStatus = 404
             /\ delStatus \in {200, 400, 404}

\* a payload with id, ids, projectId and deleteAll all present, answered 200
\* with only the document of that id gone from a larger collection
C11_Witness ==
    /\ delStatus = 200
    /\ delBody.id = "1" /\ delBody.ids # <<>> /\ delBody.projectId = "p1"
    /\ delBody.deleteAll = BooleanTrue
    /\ Cardinality(Removed) = 1
    /\ Len(db) = 2

====
